---- MODULE Spec2Model ----
(***************************************************************************)
(* Model of endicon (src/src/lib.rs): Encoder<Endianness> and              *)
(* Decoder<Endianness> for the fixed-width numeric primitives.             *)
(*                                                                         *)
(* A byte is a number in 0..255.  An integer value of width W is written   *)
(* as its W base-256 digits, least-significant digit first (for a signed   *)
(* type: the digits of its two's-complement bit pattern), because the      *)
(* 64- and 128-bit values do not fit the model checker's integers.  The    *)
(* bytes a value occupies in memory are a different thing: transmute       *)
(* lays the digits out in the host's byte order.  A float value is its     *)
(* IEEE-754 fields (sign, biased exponent, fraction).                      *)
(***************************************************************************)
EXTENDS Integers, Sequences, FiniteSets, TLC

VARIABLES
    host,   \* the build target: [little : BOOLEAN, ptr : pointer width in bytes]
    sink,   \* the bytes committed to the caller's sink so far
    calls,  \* the encode calls made on sink, in call order: [t, p, v, res]
    rpos,   \* how many bytes of sink have been read back as a source
    decs,   \* the decode calls made reading sink back, in call order: [t, p, v, res]
            \* (v the value part of the result: {} or {value})
    last    \* the last encode/decode call: its arguments, result and I/O log

vars == <<host, sink, calls, rpos, decs, last>>

\* Longest scripted prefix of sink/source behaviour (I/O operations whose outcome
\* the environment chooses; after it the sink/source is well-behaved).
MaxOps == 2
\* Longest sequence of encode calls on one sink in SpecStream.
MaxCalls == 2

-----------------------------------------------------------------------------
(* Types, policies, widths *)

Endianness == {"Native", "Little", "Big"}

UIntTypes == {"usize", "u128", "u64", "u32", "u16", "u8"}
SIntTypes == {"isize", "i128", "i64", "i32", "i16", "i8"}
IntTypes == UIntTypes \cup SIntTypes
FloatTypes == {"f64", "f32"}
Types == IntTypes \cup FloatTypes

\* f64:u64 f32:u32
BitsType(t) == IF t = "f64" THEN "u64" ELSE "u32"

Hosts == [little : BOOLEAN, ptr : {4, 8}]

size_of(t) ==
    CASE t \in {"u8", "i8"} -> 1
      [] t \in {"u16", "i16"} -> 2
      [] t \in {"u32", "i32", "f32"} -> 4
      [] t \in {"u64", "i64", "f64"} -> 8
      [] t \in {"u128", "i128"} -> 16
      [] t \in {"usize", "isize"} -> host.ptr

-----------------------------------------------------------------------------
(* Sequences of bytes *)

Min(a, b) == IF a < b THEN a ELSE b

Reverse(s) == [i \in 1..Len(s) |-> s[Len(s) + 1 - i]]

Rep(b, n) == [i \in 1..n |-> b]

\* The n least-significant base-256 digits of the natural number x, lowest first.
RECURSIVE FromNat(_, _)
FromNat(x, n) == IF n = 0 THEN <<>> ELSE <<x % 256>> \o FromNat(x \div 256, n - 1)

SetTop(d, b) == [d EXCEPT ![Len(d)] = b]

-----------------------------------------------------------------------------
(* Byte order primitives of the integer types *)

swap_bytes(x) == Reverse(x)

\* Mutant of to_le: swaps on every host.
to_le_always_swaps(x) == swap_bytes(x)
to_le(x) == IF host.little THEN x ELSE swap_bytes(x)

to_be(x) == IF host.little THEN swap_bytes(x) ELSE x

from_le(x) == IF host.little THEN x ELSE swap_bytes(x)

\* Mutant of from_be: never swaps.
from_be_never_swaps(x) == x
from_be(x) == IF host.little THEN swap_bytes(x) ELSE x

\* transmute(v): the bytes of the integer v as the host holds it in memory.
transmute_to_bytes(v) == IF host.little THEN v ELSE Reverse(v)
\* Mutant of transmute_from_bytes: the buffer is taken to be little-endian.
transmute_from_bytes_as_little(b) == b
\* transmute(bytes): the integer whose memory image on the host is bytes.
transmute_from_bytes(b) == IF host.little THEN b ELSE Reverse(b)

-----------------------------------------------------------------------------
(* Floats: IEEE-754 fields and their bit pattern *)

\* A float is [sign, exp, frac]: sign bit, biased exponent, and the fraction as
\* base-256 digits, lowest first (f32: 23 bits in 3 digits, f64: 52 bits in 7).
\* The second-highest byte of the bit pattern holds the low bits of the exponent
\* above the top bits of the fraction: ExpLow(t) * FracTop(t) = 256.
ExpLow(t) == IF t = "f64" THEN 16 ELSE 2
FracTop(t) == IF t = "f64" THEN 16 ELSE 128
ExpMax(t) == IF t = "f64" THEN 2047 ELSE 255
ExpBias(t) == IF t = "f64" THEN 1023 ELSE 127
FracLen(t) == IF t = "f64" THEN 7 ELSE 3
BitsLen(t) == IF t = "f64" THEN 8 ELSE 4

\* f.to_bits(): the same-width unsigned integer holding f's bit pattern.
to_bits(t, f) ==
    [i \in 1..BitsLen(t) |->
        IF i < FracLen(t) THEN f.frac[i]
        ELSE IF i = FracLen(t) THEN (f.exp % ExpLow(t)) * FracTop(t) + f.frac[i]
        ELSE f.sign * 128 + f.exp \div ExpLow(t)]

\* Mutant of from_bits: every NaN becomes the default quiet NaN.
from_bits_canonical_nan(t, u) ==
    LET e == (u[BitsLen(t)] % 128) * ExpLow(t) + u[FracLen(t)] \div FracTop(t)
        f == [i \in 1..FracLen(t) |->
                 IF i < FracLen(t) THEN u[i] ELSE u[i] % FracTop(t)]
    IN  IF e = ExpMax(t) /\ f # Rep(0, FracLen(t))
        THEN [sign |-> 0, exp |-> e,
              frac |-> SetTop(Rep(0, FracLen(t)), FracTop(t) \div 2)]
        ELSE [sign |-> u[BitsLen(t)] \div 128, exp |-> e, frac |-> f]
\* T::from_bits(u): the float whose bit pattern is the unsigned integer u.
from_bits(t, u) ==
    [sign |-> u[BitsLen(t)] \div 128,
     exp  |-> (u[BitsLen(t)] % 128) * ExpLow(t) + u[FracLen(t)] \div FracTop(t),
     frac |-> [i \in 1..FracLen(t) |->
                 IF i < FracLen(t) THEN u[i] ELSE u[i] % FracTop(t)]]

-----------------------------------------------------------------------------
(* The sink and the source: io::Write and io::Read as the codec sees them *)

\* What one write or read operation returns: Ok(n) or Err(kind).
Ok(n) == [k |-> "ok", n |-> n, e |-> "none"]
Err(e) == [k |-> "err", n |-> 0, e |-> e]

ErrorKinds == {"Interrupted", "BrokenPipe"}

\* What the environment may answer to one operation: accept/supply nothing, accept/
\* supply at most one byte, or fail.
Responses == {Ok(0), Ok(1)} \cup {Err(e) : e \in ErrorKinds}

\* The scripted behaviours of a sink or source: the answers to its first operations.
\* Once the script is used up the sink accepts, and the source supplies, all it can.
Scripts == UNION {[1..n -> Responses] : n \in 0..MaxOps}

\* writer.write_all(&bytes), as std::io::Write provides it: write until all of buf
\* is accepted; a write that accepts nothing ends the call with WriteZero, one that
\* fails with Interrupted is issued again, any other error ends the call.  put is
\* what the sink has accepted in this call, ops the answers of the writes issued.
RECURSIVE write_loop(_, _, _, _)
write_loop(buf, script, put, ops) ==
    IF buf = <<>> THEN [res |-> "Ok", put |-> put, ops |-> ops]
    ELSE LET r == IF script = <<>> THEN Ok(Len(buf)) ELSE Head(script)
             rest == IF script = <<>> THEN <<>> ELSE Tail(script)
             m == Min(r.n, Len(buf))
         IN  IF r.k = "err"
             THEN IF r.e = "Interrupted"
                  THEN write_loop(buf, rest, put, Append(ops, r))
                  ELSE [res |-> r.e, put |-> put, ops |-> Append(ops, r)]
             ELSE IF m = 0
                  THEN [res |-> "WriteZero", put |-> put, ops |-> Append(ops, Ok(0))]
                  ELSE write_loop(SubSeq(buf, m + 1, Len(buf)), rest,
                                  put \o SubSeq(buf, 1, m), Append(ops, Ok(m)))

\* Mutant of write_all: one write, whatever it accepts (write in place of write_all).
write_all_once(buf, script) ==
    LET r == IF script = <<>> THEN Ok(Len(buf)) ELSE Head(script)
        m == Min(r.n, Len(buf))
    IN  IF r.k = "err" THEN [res |-> r.e, put |-> <<>>, ops |-> <<r>>]
        ELSE [res |-> "Ok", put |-> SubSeq(buf, 1, m), ops |-> <<Ok(m)>>]
\* Mutant of write_all: a sink that accepts nothing more ends the call quietly.
write_all_zero_ok(buf, script) ==
    LET w == write_loop(buf, script, <<>>, <<>>)
    IN  IF w.res = "WriteZero" THEN [w EXCEPT !.res = "Ok"] ELSE w
write_all(buf, script) == write_loop(buf, script, <<>>, <<>>)

\* reader.read_exact(&mut bytes), as std::io::Read provides it: read until the want
\* bytes of the buffer are filled; a read that yields nothing (the source is at
\* its end) ends the call with UnexpectedEof, one that fails with Interrupted is
\* issued again, any other error ends the call.  got is what has been read from
\* src so far in this call, ops the answers of the reads issued.
RECURSIVE read_loop(_, _, _, _, _)
read_loop(want, src, script, got, ops) ==
    IF Len(got) = want THEN [res |-> "Ok", got |-> got, ops |-> ops]
    ELSE LET r == IF script = <<>> THEN Ok(want) ELSE Head(script)
             rest == IF script = <<>> THEN <<>> ELSE Tail(script)
             m == Min(Min(r.n, want - Len(got)), Len(src) - Len(got))
         IN  IF r.k = "err"
             THEN IF r.e = "Interrupted"
                  THEN read_loop(want, src, rest, got, Append(ops, r))
                  ELSE [res |-> r.e, got |-> got, ops |-> Append(ops, r)]
             ELSE IF m = 0
                  THEN [res |-> "UnexpectedEof", got |-> got, ops |-> Append(ops, Ok(0))]
                  ELSE read_loop(want, src, rest,
                                 got \o SubSeq(src, Len(got) + 1, Len(got) + m),
                                 Append(ops, Ok(m)))

\* Mutant of read_exact: a full buffer is followed by one more read.
read_exact_probes(want, src, script) ==
    LET r == read_loop(want, src, script, <<>>, <<>>)
    IN  [res |-> r.res, bytes |-> r.got \o Rep(0, want - Len(r.got)),
         n |-> Len(r.got),
         ops |-> IF r.res = "Ok" THEN Append(r.ops, Ok(0)) ELSE r.ops]
\* The buffer starts as [0u8; W]; bytes is the buffer when read_exact returns.
read_exact(want, src, script) ==
    LET r == read_loop(want, src, script, <<>>, <<>>)
    IN  [res |-> r.res, bytes |-> r.got \o Rep(0, want - Len(r.got)),
         n |-> Len(r.got), ops |-> r.ops]

-----------------------------------------------------------------------------
(* The codec *)

\* The value part of an io::Result<T>: Err(_) holds none, Ok(v) holds v.
NoValue == {}
Some(v) == {v}

\* Mutant of encode_int: Native is taken to be network order.
encode_int_native_is_big(t, p, v, script) ==
    LET x == CASE p = "Native" -> to_be(v)
               [] p = "Little" -> to_le(v)
               [] p = "Big" -> to_be(v)
        bytes == transmute_to_bytes(x)
        w == write_all(bytes, script)
    IN  [res |-> w.res, put |-> w.put, ops |-> w.ops]
\* impl Encoder<Endianness> for the integer type t.
encode_int(t, p, v, script) ==
    LET x == CASE p = "Native" -> v
               [] p = "Little" -> to_le(v)
               [] p = "Big" -> to_be(v)
        bytes == transmute_to_bytes(x)
        w == write_all(bytes, script)
    IN  [res |-> w.res, put |-> w.put, ops |-> w.ops]

\* Mutant of decode_int: at the end of input the zero-initialised buffer is decoded.
decode_int_padded(t, p, src, script) ==
    LET r == read_exact(size_of(t), src, script)
        value == transmute_from_bytes(r.bytes)
    IN  IF r.res \notin {"Ok", "UnexpectedEof"}
        THEN [res |-> r.res, v |-> NoValue, n |-> r.n, ops |-> r.ops]
        ELSE [res |-> "Ok",
              v |-> Some(CASE p = "Native" -> value
                           [] p = "Little" -> from_le(value)
                           [] p = "Big" -> from_be(value)),
              n |-> r.n, ops |-> r.ops]
\* impl Decoder<Endianness> for the integer type t.
decode_int(t, p, src, script) ==
    LET r == read_exact(size_of(t), src, script)
        value == transmute_from_bytes(r.bytes)
    IN  IF r.res # "Ok"
        THEN [res |-> r.res, v |-> NoValue, n |-> r.n, ops |-> r.ops]
        ELSE [res |-> "Ok",
              v |-> Some(CASE p = "Native" -> value
                           [] p = "Little" -> from_le(value)
                           [] p = "Big" -> from_be(value)),
              n |-> r.n, ops |-> r.ops]

\* impl Encoder<Endianness> for the float type t.
encode_float(t, p, v, script) == encode_int(BitsType(t), p, to_bits(t, v), script)

\* Mutant of decode_float: the error of the integer decode is wrapped in a new one.
decode_float_wraps(t, p, src, script) ==
    LET r == decode_int(BitsType(t), p, src, script)
    IN  IF r.res # "Ok" THEN [r EXCEPT !.res = "Other"]
        ELSE [r EXCEPT !.v = {from_bits(t, u) : u \in r.v}]
\* impl Decoder<Endianness> for the float type t.
decode_float(t, p, src, script) ==
    LET r == decode_int(BitsType(t), p, src, script)
    IN  IF r.res # "Ok" THEN r
        ELSE [r EXCEPT !.v = {from_bits(t, u) : u \in r.v}]

encode(t, p, v, script) ==
    IF t \in FloatTypes THEN encode_float(t, p, v, script)
    ELSE encode_int(t, p, v, script)

decode(t, p, src, script) ==
    IF t \in FloatTypes THEN decode_float(t, p, src, script)
    ELSE decode_int(t, p, src, script)

-----------------------------------------------------------------------------
(* The values and sources the calls are made with *)

\* Bytes with the top bit set, all different, in no symmetric order.
Pat(n) == [i \in 1..n |-> 160 + i]

UIntValues(w) == {FromNat(0, w), FromNat(1, w), Rep(255, w), Pat(w)}

\* 0, 1, the minimum, the maximum, -1 and a negative pattern.
SIntValues(w) ==
    {FromNat(0, w), FromNat(1, w), SetTop(Rep(0, w), 128), SetTop(Rep(255, w), 127),
     Rep(255, w), Pat(w)}

Float(s, e, f) == [sign |-> s, exp |-> e, frac |-> f]

\* +0.0, -0.0, 1.0, the smallest denormal, the infinities, the default quiet NaN,
\* a signalling NaN, a negative quiet NaN with a payload, and a negative normal.
FloatValues(t) ==
    LET n == FracLen(t)
        zero == Rep(0, n)
        quiet == FracTop(t) \div 2
    IN  {Float(0, 0, zero), Float(1, 0, zero), Float(0, ExpBias(t), zero),
         Float(0, 0, FromNat(1, n)),
         Float(0, ExpMax(t), zero), Float(1, ExpMax(t), zero),
         Float(0, ExpMax(t), SetTop(zero, quiet)),
         Float(0, ExpMax(t), FromNat(1, n)),
         Float(1, ExpMax(t), SetTop(Pat(n), quiet + 5)),
         Float(1, ExpBias(t) + 2, SetTop(Pat(n), 3))}

Values(t) ==
    IF t \in FloatTypes THEN FloatValues(t)
    ELSE IF t \in SIntTypes THEN SIntValues(size_of(t))
    ELSE UIntValues(size_of(t))

\* Longest source handed to a stand-alone decode: longer than the widest type.
MaxSrc == 18

Sources == {[i \in 1..n |-> 16 + i] : n \in 0..MaxSrc}

-----------------------------------------------------------------------------
(* Calls *)

NoCall ==
    [op |-> "none", t |-> "u8", p |-> "Native", v |-> NoValue, res |-> "Ok",
     ops |-> <<>>, src |-> <<>>, n |-> 0, put |-> <<>>]

EncodeRecord(t, p, v, r) ==
    [op |-> "encode", t |-> t, p |-> p, v |-> Some(v), res |-> r.res,
     ops |-> r.ops, src |-> <<>>, n |-> Len(r.put), put |-> r.put]

DecodeRecord(t, p, src, r) ==
    [op |-> "decode", t |-> t, p |-> p, v |-> r.v, res |-> r.res,
     ops |-> r.ops, src |-> src, n |-> r.n, put |-> <<>>]

Init ==
    /\ host \in Hosts
    /\ sink = <<>>
    /\ calls = <<>>
    /\ rpos = 0
    /\ decs = <<>>
    /\ last = NoCall

\* v.encode(&mut sink, p) on an empty sink whose first answers are script.
EncodeCall(t, p, v, script) ==
    LET r == encode(t, p, v, script)
    IN  /\ last.op = "none"
        /\ sink' = r.put
        /\ calls' = <<[t |-> t, p |-> p, v |-> v, res |-> r.res]>>
        /\ rpos' = 0
        /\ decs' = <<>>
        /\ last' = EncodeRecord(t, p, v, r)
        /\ UNCHANGED host

\* T::decode(&mut source, p) of the type and policy just encoded, the source being
\* the bytes that encode call left on its sink.
DecodeBack(script) ==
    /\ last.op = "encode"
    /\ LET c == calls[1]
           r == decode(c.t, c.p, sink, script)
       IN  /\ rpos' = r.n
           /\ decs' = <<[t |-> c.t, p |-> c.p, v |-> r.v, res |-> r.res]>>
           /\ last' = DecodeRecord(c.t, c.p, sink, r)
    /\ UNCHANGED <<host, sink, calls>>

\* T::decode(&mut source, p) on a source of the caller's own.
DecodeCall(t, p, src, script) ==
    LET r == decode(t, p, src, script)
    IN  /\ last.op = "none"
        /\ sink' = <<>>
        /\ calls' = <<>>
        /\ rpos' = 0
        /\ decs' = <<>>
        /\ last' = DecodeRecord(t, p, src, r)
        /\ UNCHANGED host

\* Each call is made on a sink or source of its own: nothing of the codec outlives
\* a call, so a behaviour makes one call, and may decode what it encoded.
Next ==
    \/ /\ last.op = "none"
       /\ \E t \in Types, p \in Endianness, script \in Scripts :
            \E v \in Values(t) : EncodeCall(t, p, v, script)
    \/ /\ last.op = "encode"
       /\ \E script \in Scripts : DecodeBack(script)
    \/ /\ last.op = "none"
       /\ \E t \in Types, p \in Endianness, src \in Sources, script \in Scripts :
            DecodeCall(t, p, src, script)

Spec == Init /\ [][Next]_vars

-----------------------------------------------------------------------------
(* A sequence of calls on one sink, read back in the same order *)

\* One type of each width and kind, and the values whose bytes are all different.
StreamTypes == {"u8", "i16", "f32", "u64", "f64", "i128", "usize"}

StreamValues(t) ==
    IF t \in FloatTypes
    THEN {Float(1, ExpMax(t), SetTop(Pat(FracLen(t)), FracTop(t) \div 2 + 5))}
    ELSE {Pat(size_of(t))}

\* The sink and source of a stream accept and supply everything, whole or the
\* first byte alone.
StreamScripts == {<<>>, <<Ok(1)>>}

\* v.encode(&mut sink, p) on the sink that holds the earlier calls' bytes.
AppendCall(t, p, v, script) ==
    LET r == encode(t, p, v, script)
    IN  /\ Len(calls) < MaxCalls
        /\ decs = <<>>
        /\ sink' = sink \o r.put
        /\ calls' = Append(calls, [t |-> t, p |-> p, v |-> v, res |-> r.res])
        /\ last' = EncodeRecord(t, p, v, r)
        /\ UNCHANGED <<host, rpos, decs>>

\* T::decode(&mut source, p) of the next call's type and policy, the source being
\* the unread rest of the sink's bytes.
ReadNext(script) ==
    /\ Len(decs) < Len(calls)
    /\ LET c == calls[Len(decs) + 1]
           src == SubSeq(sink, rpos + 1, Len(sink))
           r == decode(c.t, c.p, src, script)
       IN  /\ rpos' = rpos + r.n
           /\ decs' = Append(decs, [t |-> c.t, p |-> c.p, v |-> r.v, res |-> r.res])
           /\ last' = DecodeRecord(c.t, c.p, src, r)
    /\ UNCHANGED <<host, sink, calls>>

NextStream ==
    \/ /\ Len(calls) < MaxCalls
       /\ decs = <<>>
       /\ \E t \in StreamTypes, p \in Endianness, script \in StreamScripts :
            \E v \in StreamValues(t) : AppendCall(t, p, v, script)
    \/ \E script \in StreamScripts : ReadNext(script)

SpecStream == Init /\ [][NextStream]_vars

-----------------------------------------------------------------------------
(* Properties *)

\* A failure other than an interruption.
Hard(o) == o.k = "err" /\ o.e # "Interrupted"

\* No operation of the log failed for good or answered with no bytes at all.
Supplied(ops) == \A i \in 1..Len(ops) : ~Hard(ops[i]) /\ ops[i] # Ok(0)

\* The i-th least-significant byte of the integer v (i = 0 the lowest).
LSByte(v, i) == v[i + 1]

\* A decode of what the encode call left on its sink has returned.
DecodedBack == last.op = "decode" /\ decs # <<>>

\* C1: for every integer type, policy and value, encoding the value into an empty
\* sink that accepts all the bytes and decoding the same type with the same policy
\* from the bytes written returns exactly that value.
C1_RoundTrip ==
    (/\ DecodedBack
     /\ calls[1].t \in IntTypes
     /\ calls[1].res = "Ok"
     /\ Supplied(last.ops))
    => (/\ decs[1].res = "Ok"
        /\ decs[1].v = Some(calls[1].v))

\* The minimum of i64 has gone through the Big policy on a little-endian host.
C1_Witness ==
    /\ DecodedBack
    /\ host.little
    /\ calls[1].t = "i64"
    /\ calls[1].p = "Big"
    /\ calls[1].v = SetTop(Rep(0, 8), 128)
    /\ calls[1].res = "Ok"
    /\ Supplied(last.ops)
    /\ decs[1].res = "Ok"

\* C2: on every host, each byte an integer encode commits under Little is the
\* value's byte of the same significance rank (byte 0 the least significant), and
\* under Big the bytes come in the reverse order (byte 0 the most significant);
\* 1u16 is [1, 0] under Little and [0, 1] under Big, 1u32 is [1, 0, 0, 0] and
\* [0, 0, 0, 1].
C2_ByteOrder ==
    (last.op = "encode" /\ last.t \in IntTypes)
    => LET w == size_of(last.t)
           v == CHOOSE x \in last.v : TRUE
       IN  /\ last.p = "Little" =>
                \A i \in 0..(Len(last.put) - 1) : last.put[i + 1] = LSByte(v, i)
           /\ last.p = "Big" =>
                \A i \in 0..(Len(last.put) - 1) : last.put[i + 1] = LSByte(v, w - 1 - i)
           /\ (last.res = "Ok" /\ last.t = "u16" /\ v = FromNat(1, 2)) =>
                /\ last.p = "Little" => last.put = <<1, 0>>
                /\ last.p = "Big" => last.put = <<0, 1>>
           /\ (last.res = "Ok" /\ last.t = "u32" /\ v = FromNat(1, 4)) =>
                /\ last.p = "Little" => last.put = <<1, 0, 0, 0>>
                /\ last.p = "Big" => last.put = <<0, 0, 0, 1>>

\* 1u32 has been encoded under Big on a big-endian host.
C2_Witness ==
    /\ last.op = "encode"
    /\ ~host.little
    /\ last.t = "u32"
    /\ last.p = "Big"
    /\ last.v = Some(FromNat(1, 4))
    /\ last.res = "Ok"
    /\ last.put = <<0, 0, 0, 1>>

\* The bytes the operations of a log moved.
RECURSIVE Transferred(_)
Transferred(ops) == IF ops = <<>> THEN 0 ELSE Head(ops).n + Transferred(Tail(ops))

\* An encode or decode call has returned.
Called == last.op \in {"encode", "decode"}

\* The last operation of the call was answered with no bytes at all.
EndedOnZero == last.ops # <<>> /\ last.ops[Len(last.ops)] = Ok(0)

\* C3, as claimed: every encode leaves exactly W bytes on the sink and every decode
\* consumes exactly W bytes of the source.
C3_Original == Called => last.n = size_of(last.t)

\* C3, amended: a call never moves more than W bytes; it returns Ok exactly when it
\* has moved W bytes (an encode that fails leaves fewer than W bytes on the sink, a
\* decode that fails has consumed fewer than W); the bytes an encode moved are the
\* sink's whole content, and a decode takes its bytes from the front of the source
\* and no other.
C3_ExactWidth ==
    Called =>
        /\ last.n <= size_of(last.t)
        /\ last.res = "Ok" <=> last.n = size_of(last.t)
        /\ Transferred(last.ops) = last.n
        /\ last.op = "encode" => (Len(last.put) = last.n /\ sink = last.put)
        /\ last.op = "decode" => last.n <= Len(last.src)
        /\ DecodedBack => rpos = last.n

\* A u16 has been decoded from a source of five bytes, three of them left unread.
C3_Witness ==
    /\ last.op = "decode"
    /\ last.t = "u16"
    /\ last.res = "Ok"
    /\ last.n = 2
    /\ Len(last.src) = 5

\* C4: a decode whose source ends before it has supplied W bytes (a read answers
\* with no bytes, or the source holds fewer than W bytes and no read fails) returns
\* UnexpectedEof and no value; whenever fewer than W bytes were read no value is
\* returned.
C4_Truncated ==
    last.op = "decode" =>
        /\ EndedOnZero => (last.res = "UnexpectedEof" /\ last.v = NoValue)
        /\ (/\ Len(last.src) < size_of(last.t)
            /\ \A i \in 1..Len(last.ops) : ~Hard(last.ops[i]))
           => (last.res = "UnexpectedEof" /\ last.v = NoValue)
        /\ last.n < size_of(last.t) => (last.res # "Ok" /\ last.v = NoValue)

\* A u32 has been decoded from a source of two bytes.
C4_Witness ==
    /\ last.op = "decode"
    /\ last.t = "u32"
    /\ Len(last.src) = 2
    /\ last.n = 2
    /\ EndedOnZero
    /\ last.res = "UnexpectedEof"

\* C5: an encode whose sink accepts no byte of a write returns the write error
\* WriteZero; encode returns Ok only with all W bytes on the sink, and with fewer
\* than W bytes on the sink it returns a write error.
C5_SinkRejects ==
    last.op = "encode" =>
        /\ EndedOnZero => last.res = "WriteZero"
        /\ last.res = "Ok" => (Len(last.put) = size_of(last.t) /\ sink = last.put)
        /\ Len(last.put) < size_of(last.t) =>
             last.res \in {"WriteZero"} \cup (ErrorKinds \ {"Interrupted"})

\* A u64 has been encoded to a sink that accepts zero bytes.
C5_Witness ==
    /\ last.op = "encode"
    /\ last.t = "u64"
    /\ last.ops = <<Ok(0)>>
    /\ last.put = <<>>
    /\ last.res = "WriteZero"

\* C6: for f32 and f64, every policy and every bit pattern (NaNs with a payload,
\* signed zeros, denormals, infinities), decoding what encode wrote returns a float
\* with the same sign, exponent and fraction bits; what encode writes are the bytes
\* of the unsigned integer to_bits: 1.0f32 is 0x3F800000, the default f32 NaN
\* 0x7FC00000, -0.0f64 0x8000000000000000 and 1.0f64 0x3FF0000000000000.
C6_FloatBits ==
    /\ (/\ DecodedBack
        /\ calls[1].t \in FloatTypes
        /\ calls[1].res = "Ok"
        /\ Supplied(last.ops))
       => (/\ decs[1].res = "Ok"
           /\ decs[1].v = Some(calls[1].v))
    /\ (last.op = "encode" /\ last.t \in FloatTypes /\ last.res = "Ok")
       => LET v == CHOOSE x \in last.v : TRUE
              zero == Rep(0, FracLen(last.t))
          IN  /\ last.p = "Little" => last.put = to_bits(last.t, v)
              /\ last.p = "Big" => last.put = Reverse(to_bits(last.t, v))
              /\ (last.p = "Little" /\ last.t = "f32" /\ v = Float(0, 127, zero))
                 => last.put = <<0, 0, 128, 63>>
              /\ (last.p = "Little" /\ last.t = "f32" /\ v = Float(0, 255, SetTop(zero, 64)))
                 => last.put = <<0, 0, 192, 127>>
              /\ (last.p = "Big" /\ last.t = "f64" /\ v = Float(1, 0, zero))
                 => last.put = <<128, 0, 0, 0, 0, 0, 0, 0>>
              /\ (last.p = "Big" /\ last.t = "f64" /\ v = Float(0, 1023, zero))
                 => last.put = <<63, 240, 0, 0, 0, 0, 0, 0>>

\* A negative f64 NaN with a payload has gone through the Big policy.
C6_Witness ==
    /\ DecodedBack
    /\ calls[1].t = "f64"
    /\ calls[1].p = "Big"
    /\ calls[1].v = Float(1, 2047, SetTop(Pat(7), 13))
    /\ calls[1].res = "Ok"
    /\ Supplied(last.ops)
    /\ decs[1].res = "Ok"

\* C7, as claimed: an error of any kind returned by a read or write, interruptions
\* included, is the last operation of the call and is the call's result.
C7_Original ==
    Called =>
        \A i \in 1..Len(last.ops) :
            last.ops[i].k = "err" => (i = Len(last.ops) /\ last.res = last.ops[i].e)

\* C7, amended: an error of any kind other than Interrupted returned by a read or
\* write is the last operation of the call and is the call's result unchanged, and
\* a call returns Ok only if no such error occurred; an Interrupted error is never
\* the result: the operation is issued again.
C7_Propagation ==
    Called =>
        /\ \A i \in 1..Len(last.ops) :
             Hard(last.ops[i]) => (i = Len(last.ops) /\ last.res = last.ops[i].e)
        /\ \A i \in 1..Len(last.ops) :
             last.ops[i] = Err("Interrupted") => i < Len(last.ops)
        /\ last.res # "Interrupted"
        /\ last.res = "Ok" => \A i \in 1..Len(last.ops) : last.ops[i].k = "ok"
                                 \/ last.ops[i] = Err("Interrupted")

\* A decode of an f32 has met a broken pipe after one byte.
C7_Witness ==
    /\ last.op = "decode"
    /\ last.t = "f32"
    /\ last.ops = <<Ok(1), Err("BrokenPipe")>>
    /\ last.res = "BrokenPipe"
    /\ last.v = NoValue

\* C8, as claimed: a call issues at most one read or write.
C8_Original == Called => Len(last.ops) <= 1

\* C8, amended: a call issues at least one operation, and exactly one when the
\* first moves all W bytes; only a short transfer (fewer than W bytes, more than
\* none) or an Interrupted error is followed by another operation, so at most W
\* operations of a call move bytes.
C8_Operations ==
    Called =>
        /\ Len(last.ops) >= 1
        /\ last.ops[1] = Ok(size_of(last.t)) => Len(last.ops) = 1
        /\ \A i \in 1..(Len(last.ops) - 1) :
             \/ last.ops[i] = Err("Interrupted")
             \/ (/\ last.ops[i].k = "ok"
                 /\ 0 < last.ops[i].n
                 /\ last.ops[i].n < size_of(last.t))
        /\ Cardinality({i \in 1..Len(last.ops) : last.ops[i].n > 0}) <= size_of(last.t)

\* A u16 has been encoded to a sink that accepts one byte per write.
C8_Witness ==
    /\ last.op = "encode"
    /\ last.t = "u16"
    /\ last.ops = <<Ok(1), Ok(1)>>
    /\ last.res = "Ok"

\* The wire formats: least-significant byte first, and most-significant first.
LittleWire(bits) == bits
BigWire(bits) == Reverse(bits)
HostWire(bits) == IF host.little THEN LittleWire(bits) ELSE BigWire(bits)

\* The unsigned integer whose bytes go on the wire for the value v of type t.
WireBits(t, v) == IF t \in FloatTypes THEN to_bits(t, v) ELSE v

\* C9: under Native the bytes encode commits are the Little encoding of the value
\* on a little-endian host and its Big encoding on a big-endian host, for every
\* type and value of the run; decoding what a Native encode wrote returns the
\* value, and a Native decode reads its W bytes as the host's own byte order.
C9_Native ==
    /\ (last.op = "encode" /\ last.p = "Native")
       => LET v == CHOOSE x \in last.v : TRUE
          IN  last.put = SubSeq(HostWire(WireBits(last.t, v)), 1, Len(last.put))
    /\ (/\ DecodedBack
        /\ calls[1].p = "Native"
        /\ calls[1].res = "Ok"
        /\ Supplied(last.ops))
       => (/\ decs[1].res = "Ok"
           /\ decs[1].v = Some(calls[1].v))
    /\ (last.op = "decode" /\ last.p = "Native" /\ last.res = "Ok"
        /\ last.t \in IntTypes)
       => last.v = Some(HostWire(SubSeq(last.src, 1, size_of(last.t))))

\* 1u32 has been encoded under Native on a big-endian host.
C9_Witness ==
    /\ last.op = "encode"
    /\ ~host.little
    /\ last.t = "u32"
    /\ last.p = "Native"
    /\ last.v = Some(FromNat(1, 4))
    /\ last.res = "Ok"
    /\ last.put = <<0, 0, 0, 1>>

\* The bytes the call c = [t, p, v] is to put on the wire.
Wire(c) ==
    CASE c.p = "Little" -> LittleWire(WireBits(c.t, c.v))
      [] c.p = "Big" -> BigWire(WireBits(c.t, c.v))
      [] c.p = "Native" -> HostWire(WireBits(c.t, c.v))

\* The wire bytes of the calls cs, one after the other.
RECURSIVE Concat(_)
Concat(cs) == IF cs = <<>> THEN <<>> ELSE Wire(Head(cs)) \o Concat(Tail(cs))

\* After successful encode calls the sink holds their encodings in call order;
\* the decode calls made so far, of the same types and policies in the same order,
\* have returned the values encoded and have read exactly those values' bytes, so
\* that the source is exhausted once every value is decoded.
StreamInv ==
    (\A i \in 1..Len(calls) : calls[i].res = "Ok")
    => /\ sink = Concat(calls)
       /\ Len(decs) <= Len(calls)
       /\ \A j \in 1..Len(decs) :
            /\ decs[j].t = calls[j].t
            /\ decs[j].p = calls[j].p
            /\ decs[j].res = "Ok"
            /\ decs[j].v = Some(calls[j].v)
       /\ rpos = Len(Concat(SubSeq(calls, 1, Len(decs))))
       /\ Len(decs) = Len(calls) => rpos = Len(sink)

\* A call leaves the bytes already on the sink as they are.
Appends == Len(sink) <= Len(sink') /\ SubSeq(sink', 1, Len(sink)) = sink

\* C10: after any sequence of successful encode calls on one initially empty sink
\* the sink holds the concatenation of their encodings in call order, every call
\* appending its bytes and changing none written earlier, and decoding the same
\* types with the same policies in the same order returns the values and leaves
\* the source exactly exhausted.
C10_Stream == [](StreamInv) /\ [][Appends]_vars

\* A u8 under Little and an f64 under Big have been encoded and decoded back.
C10_Witness ==
    /\ Len(calls) = 2
    /\ Len(decs) = 2
    /\ calls[1].t = "u8" /\ calls[1].p = "Little"
    /\ calls[2].t = "f64" /\ calls[2].p = "Big"
    /\ decs[2].res = "Ok"
    /\ Len(sink) = 9
    /\ rpos = 9

====
